---- MODULE Spec2Model ----
(***************************************************************************)
(* Model of SpiNNaker-py2json's coordinate geometry:                       *)
(*   spalloc_server/links.py  - the Links enumeration and its lazily built *)
(*                              vector <-> direction tables                *)
(*   spinn_machine.py         - SpiNNakerTriadGeometry                     *)
(*                                                                         *)
(* Three specifications share the module:                                  *)
(*   Spec      - a client constructing geometries and querying them        *)
(*   SpecLinks - a client using Links one call at a time                   *)
(*   SpecLazy  - several threads entering the two lazy initialisers, one   *)
(*               attribute read or write per step                          *)
(***************************************************************************)
EXTENDS Integers, Sequences, FiniteSets, TLC

VARIABLES
    \* ---- links.py -------------------------------------------------------
    LinksHelper,   \* class _LinksHelper: its two class attributes (None or a dict id)
    heap,          \* the dict objects allocated so far; a dict's id is its index
    vector,        \* the argument of the client's last from_vector call (or <<>>)
    link,          \* the Links member the client holds / the outcome of from_vector
    out,           \* the outcome of to_vector on the held member (or NoCall)
    hist,          \* the members the client applied .opposite to, oldest first
    \* ---- spinn_machine.py -----------------------------------------------
    self,          \* the client's SpiNNakerTriadGeometry instance (or NoInstance)
    params,        \* the arguments of the last constructor call
    call,          \* the last query and its arguments
    result,        \* the outcome of the last constructor call or query
    \* ---- threads in the lazy initialisers -------------------------------
    spinn5_triad_geometry,  \* class attribute: None or an instance id
    constructed,   \* how many SpiNNakerTriadGeometry objects were constructed
    pc,            \* per thread: the statement it is about to execute
    local,         \* per thread: obj, the id in its local (ldl, or the new instance);
                   \*   first, the first attribute read by a return statement
    ret            \* per thread: what its last call returned

linkVars == <<LinksHelper, heap, vector, link, out, hist>>
geomVars == <<self, params, call, result>>
lazyVars == <<spinn5_triad_geometry, constructed, pc, local, ret>>
vars == <<LinksHelper, heap, vector, link, out, hist, self, params, call, result,
          spinn5_triad_geometry, constructed, pc, local, ret>>

(***************************************************************************)
(* Bounds of the model                                                     *)
(***************************************************************************)
MaxMag == 3        \* from_vector is called with components in -MaxMag..MaxMag
MaxCoord == 12     \* chip coordinates queried lie in -MaxCoord..MaxCoord
MaxSize == 25      \* get_potential_ethernet_chips is asked for 1..MaxSize
MaxDelta == 2      \* _hexagonal_metric_distance is asked for points in -MaxDelta..MaxDelta
NumThreads == 2    \* threads of SpecLazy

(***************************************************************************)
(* Python values                                                           *)
(***************************************************************************)
None == 0          \* an attribute holding None; object ids start at 1
Abs(n) == IF n < 0 THEN -n ELSE n
Max2(a, b) == IF a >= b THEN a ELSE b
NoCall == [kind |-> "none"]
Return(v) == [kind |-> "return", value |-> v]
Raise(e) == [kind |-> e]

\* A dict is the sequence of its <<key, value>> items in insertion order.
DictHas(d, k) == \E i \in 1..Len(d) : d[i][1] = k
DictGet(d, k) == d[CHOOSE i \in 1..Len(d) : d[i][1] = k][2]
DictSet(d, k, v) ==
    IF DictHas(d, k)
    THEN [i \in 1..Len(d) |-> IF d[i][1] = k THEN <<k, v>> ELSE d[i]]
    ELSE Append(d, <<k, v>>)
DictKeys(d) == {d[i][1] : i \in 1..Len(d)}

(***************************************************************************)
(* links.py                                                                *)
(***************************************************************************)
east == 0
north_east == 1
north == 2
west == 3
south_west == 4
south == 5
Links == {east, north_east, north, west, south_west, south}

\* lines 55-61: the dict literal of the 6 primary vectors
PrimaryLookup ==
    << <<<<1, 0>>, east>>, <<<<-1, 0>>, west>>, <<<<0, 1>>, north>>,
       <<<<0, -1>>, south>>, <<<<1, 1>>, north_east>>, <<<<-1, -1>>, south_west>> >>

\* lines 62-63: {l: v for (v, l) in ldl.items()}, a later item overwriting
RECURSIVE InvertItems(_, _)
InvertItems(d, n) ==
    IF n = 0 THEN <<>>
    ELSE DictSet(InvertItems(d, n - 1), d[n][2], d[n][1])
Invert(d) == InvertItems(d, Len(d))

\* lines 65-66: the two aliased diagonals
AliasSW(d) == DictSet(d, <<1, -1>>, south_west)
\* (the second alias left out)
AliasNE_missing(d) == d
AliasNE(d) == DictSet(d, <<-1, 1>>, north_east)

\* The statements of get_lookups, each on the class attributes c and the heap h.
\* line 54
LookupIsNone(c) == c.link_direction_lookup = None
\* lines 55-61: ldl = _LinksHelper._link_direction_lookup = {...}
StorePrimary(c, h) ==
    [c |-> [c EXCEPT !.link_direction_lookup = Len(h) + 1],
     h |-> Append(h, PrimaryLookup)]
\* lines 62-63, ldl being the id the thread holds in its local
StoreInverse(c, h, ldl) ==
    [c |-> [c EXCEPT !.direction_link_lookup = Len(h) + 1],
     h |-> Append(h, Invert(h[ldl]))]
\* line 65
StoreAliasSW(c, h, ldl) == [c |-> c, h |-> [h EXCEPT ![ldl] = AliasSW(h[ldl])]]
\* line 66
StoreAliasNE(c, h, ldl) == [c |-> c, h |-> [h EXCEPT ![ldl] = AliasNE(h[ldl])]]

\* (the aliases added before the inverse table is derived)
get_lookups_aliases_first(c, h) ==
    IF LookupIsNone(c)
    THEN LET s1 == StorePrimary(c, h)
             ldl == s1.c.link_direction_lookup
             s2 == StoreAliasSW(s1.c, s1.h, ldl)
             s3 == StoreAliasNE(s2.c, s2.h, ldl)
         IN  StoreInverse(s3.c, s3.h, ldl)
    ELSE [c |-> c, h |-> h]
\* get_lookups run from its first statement to its return with no other
\* thread in between: the class attributes and heap it leaves.
get_lookups(c, h) ==
    IF LookupIsNone(c)
    THEN LET s1 == StorePrimary(c, h)
             ldl == s1.c.link_direction_lookup
             s2 == StoreInverse(s1.c, s1.h, ldl)
             s3 == StoreAliasSW(s2.c, s2.h, ldl)
         IN  StoreAliasNE(s3.c, s3.h, ldl)
    ELSE [c |-> c, h |-> h]

\* (a clamp that keeps the sign of a large component)
clamp_keeping_sign(x) == IF Abs(x) > 1 THEN (IF x > 0 THEN 1 ELSE -1) ELSE x
\* lines 31-34: a component of magnitude above 1 is taken as a wrap-around
\* link and replaced by the unit step of the opposite sign
clamp(x) == IF Abs(x) > 1 THEN (IF x > 0 THEN -1 ELSE 1) ELSE x

\* lines 36-37, lookup being the table get_lookups returned
from_vector(lookup, v) ==
    LET k == <<clamp(v[1]), clamp(v[2])>>
    IN  IF DictHas(lookup, k) THEN Return(DictGet(lookup, k)) ELSE Raise("KeyError")

\* lines 40-41
to_vector(lookup, d) ==
    IF DictHas(lookup, d) THEN Return(DictGet(lookup, d)) ELSE Raise("KeyError")

\* (a reflection of the ordinals instead of the half turn)
opposite_reflected(d) == 5 - d
\* line 45
opposite(d) == (d + 3) % 6

(***************************************************************************)
(* SpecLinks: one client, one call at a time.  The client obtains a Links  *)
(* member from from_vector or by naming it (Links.east, as the machine     *)
(* descriptions do), and calls to_vector or opposite on the member it      *)
(* holds.                                                                  *)
(***************************************************************************)
MaxOpp == 2        \* .opposite is chained at most MaxOpp times

Components == (-MaxMag)..MaxMag
Vectors == Components \X Components

InitLinks ==
    /\ LinksHelper = [link_direction_lookup |-> None, direction_link_lookup |-> None]
    /\ heap = <<>>
    /\ vector = <<>>
    /\ link = NoCall
    /\ out = NoCall
    /\ hist = <<>>

\* Links.from_vector(v), lines 28-37
FromVector ==
    /\ \E v \in Vectors :
        LET s == get_lookups(LinksHelper, heap)
        IN  /\ LinksHelper' = s.c
            /\ heap' = s.h
            /\ vector' = v
            /\ link' = from_vector(s.h[s.c.link_direction_lookup], v)
    /\ out' = NoCall
    /\ hist' = <<>>
    /\ UNCHANGED <<geomVars, lazyVars>>

\* Links.<member>, lines 20-25
Member ==
    /\ \E d \in Links : link' = Return(d)
    /\ vector' = <<>>
    /\ out' = NoCall
    /\ hist' = <<>>
    /\ UNCHANGED <<LinksHelper, heap, geomVars, lazyVars>>

\* link.to_vector(), lines 39-41
ToVector ==
    /\ link.kind = "return"
    /\ LET s == get_lookups(LinksHelper, heap)
       IN  /\ LinksHelper' = s.c
           /\ heap' = s.h
           /\ out' = to_vector(s.h[s.c.direction_link_lookup], link.value)
    /\ UNCHANGED <<vector, link, hist, geomVars, lazyVars>>

\* link = link.opposite, lines 43-45
Opposite ==
    /\ link.kind = "return"
    /\ Len(hist) < MaxOpp
    /\ link' = Return(opposite(link.value))
    /\ hist' = Append(hist, link.value)
    /\ vector' = <<>>
    /\ out' = NoCall
    /\ UNCHANGED <<LinksHelper, heap, geomVars, lazyVars>>

NextLinks ==
    \/ FromVector
    \/ Member
    \/ ToVector
    \/ Opposite

(***************************************************************************)
(* spinn_machine.py                                                        *)
(***************************************************************************)
SIZE_X_OF_ONE_BOARD == 8
SIZE_Y_OF_ONE_BOARD == 8

\* (the remainder of a truncating division: the sign follows the dividend)
PyMod_truncating(a, n) ==
    IF a >= 0 THEN a % Abs(n) ELSE -((-a) % Abs(n))
\* Python's a % n: the sign of the result follows the divisor (n # 0)
PyMod(a, n) == IF n > 0 THEN a % n ELSE -((-a) % (-n))

\* (a range that includes its stop)
PyRangeLen_inclusive(start, stop, step) ==
    IF step > 0
    THEN (IF start > stop THEN 0 ELSE ((stop - start) \div step) + 1)
    ELSE (IF start < stop THEN 0 ELSE ((start - stop) \div (-step)) + 1)
\* Python's range(start, stop, step) as a sequence (step # 0)
PyRangeLen(start, stop, step) ==
    IF step > 0
    THEN (IF start >= stop THEN 0 ELSE (stop - start + step - 1) \div step)
    ELSE (IF start <= stop THEN 0 ELSE (start - stop - step - 1) \div (-step))
PyRange(start, stop, step) ==
    [i \in 1..PyRangeLen(start, stop, step) |-> start + (i - 1) * step]

\* seq[i] for a Python index i, negative indices counting from the end
PyHasItem(seq, i) == -Len(seq) <= i /\ i < Len(seq)
PyItem(seq, i) == IF i >= 0 THEN seq[i + 1] ELSE seq[Len(seq) + i + 1]

RECURSIVE Flatten(_)
Flatten(ss) == IF ss = <<>> THEN <<>> ELSE Head(ss) \o Flatten(Tail(ss))

\* The centre is a pair of reals used only in distances: the model measures
\* every distance of the constructor in units of 1/CentreScale, so that the
\* centre (3.6, 3.4) is the pair (36, 34).
CentreScale == 10

\* (the metric of the other diagonal convention)
_hexagonal_metric_distance_antidiagonal(x, y, x_centre, y_centre) ==
    LET dx == x - x_centre
        dy == y - y_centre
    IN  Max2(Max2(Abs(dx), Abs(dy)), Abs(dx + dy))
\* lines 61-64
_hexagonal_metric_distance(x, y, x_centre, y_centre) ==
    LET dx == x - x_centre
        dy == y - y_centre
    IN  Max2(Max2(Abs(dx), Abs(dy)), Abs(dx - dy))

\* lines 43-47: roots outermost, then x1, then y1
extended_ethernet_chips(triad_width, triad_height, roots) ==
    LET shift(d, k) == (k - 1) * d      \* k = 0, 1, 2 |-> -d, 0, +d
    IN  [i \in 1..(9 * Len(roots)) |->
            LET r == roots[((i - 1) \div 9) + 1]
                x1 == shift(triad_width, ((i - 1) % 9) \div 3)
                y1 == shift(triad_height, (i - 1) % 3)
            IN  <<r[1] + x1, r[2] + y1>>]

\* (the last minimal item instead of the first)
RECURSIVE LastMin(_, _)
LastMin(keys, n) ==
    IF n = 1 THEN 1
    ELSE LET b == LastMin(keys, n - 1)
         IN  IF keys[n] <= keys[b] THEN n ELSE b
\* min(..., key=...): the index of the first item whose key is minimal
RECURSIVE FirstMin(_, _)
FirstMin(keys, n) ==
    IF n = 1 THEN 1
    ELSE LET b == FirstMin(keys, n - 1)
         IN  IF keys[n] < keys[b] THEN n ELSE b

\* lines 66-78, for a non-empty ethernet_chips
_locate_nearest_ethernet(x, y, ethernet_chips, centre) ==
    LET keys == [i \in 1..Len(ethernet_chips) |->
                    _hexagonal_metric_distance(
                        CentreScale * x, CentreScale * y,
                        CentreScale * ethernet_chips[i][1] + centre[1],
                        CentreScale * ethernet_chips[i][2] + centre[2])]
    IN  ethernet_chips[FirstMin(keys, Len(keys))]

\* lines 38-58.  range() of a non-positive number is empty, so no cell is
\* visited for a non-positive dimension; min() of no candidates raises.
__init__(triad_width, triad_height, roots, centre) ==
    LET ext == extended_ethernet_chips(triad_width, triad_height, roots)
        nrows == IF triad_height > 0 THEN triad_height ELSE 0
        ncols == IF triad_width > 0 THEN triad_width ELSE 0
    IN  IF nrows > 0 /\ ncols > 0 /\ Len(ext) = 0
        THEN Raise("ValueError")
        ELSE Return(
            [triad_width |-> triad_width,
             triad_height |-> triad_height,
             roots |-> roots,
             ethernet_offset |->
                [r \in 1..nrows |-> [c \in 1..ncols |->
                    LET v == _locate_nearest_ethernet(c - 1, r - 1, ext, centre)
                    IN  <<(c - 1) - v[1], (r - 1) - v[2]>>]]])

\* lines 86-89
get_local_chip_coordinate(g, x, y, root_x, root_y) ==
    IF g.triad_width = 0 \/ g.triad_height = 0 THEN Raise("ZeroDivisionError")
    ELSE LET dx == PyMod(x - root_x, g.triad_width)
             dy == PyMod(y - root_y, g.triad_height)
         IN  IF ~PyHasItem(g.ethernet_offset, dy) THEN Raise("IndexError")
             ELSE IF ~PyHasItem(PyItem(g.ethernet_offset, dy), dx) THEN Raise("IndexError")
             ELSE Return(PyItem(PyItem(g.ethernet_offset, dy), dx))

\* lines 81-84
get_ethernet_chip_coordinates(g, x, y, width, height, root_x, root_y) ==
    LET d == get_local_chip_coordinate(g, x, y, root_x, root_y)
    IN  IF d.kind # "return" THEN d
        ELSE IF width = 0 \/ height = 0 THEN Raise("ZeroDivisionError")
        ELSE Return(<<PyMod(x - d.value[1], width), PyMod(y - d.value[2], height)>>)

\* lines 91-107
get_potential_ethernet_chips(g, width, height) ==
    IF g.triad_width = 0 \/ g.triad_height = 0 THEN Raise("ZeroDivisionError")
    ELSE LET eth_width == IF PyMod(width, g.triad_width) = 0 THEN width
                          ELSE width - SIZE_X_OF_ONE_BOARD + 1
             eth_height == IF PyMod(height, g.triad_height) = 0 THEN height
                           ELSE height - SIZE_Y_OF_ONE_BOARD + 1
         IN  IF eth_width <= 0 \/ eth_height <= 0 THEN Return(<< <<0, 0>> >>)
             ELSE Return(Flatten(
                [k \in 1..Len(g.roots) |->
                    LET ys == PyRange(g.roots[k][2], eth_height, g.triad_height)
                        xs == PyRange(g.roots[k][1], eth_width, g.triad_width)
                    IN  Flatten([j \in 1..Len(ys) |->
                            [i \in 1..Len(xs) |-> <<xs[i], ys[j]>>]])]))

(***************************************************************************)
(* Spec: one client of spinn_machine.py.  It constructs a geometry, then   *)
(* asks it one query at a time; Done is the client taking the outcome.     *)
(***************************************************************************)
Coords == (-MaxCoord)..MaxCoord
Deltas == (-MaxDelta)..MaxDelta
\* the (root_x, root_y) origins queries are made relative to
Origins == {<<0, 0>>, <<4, 8>>, <<-3, 17>>}
\* the lattice widths and heights get_ethernet_chip_coordinates is asked for
LatticeSides == {1, 8, 20}

\* line 35: the arguments get_spinn5_geometry passes
Spinn5Args ==
    [triad_width |-> 12, triad_height |-> 12,
     roots |-> << <<0, 0>>, <<4, 8>>, <<8, 4>> >>, centre |-> <<36, 34>>]

\* The constructor calls of the model: the standard triad, a single board,
\* a small triad whose roots tie, and the malformed ones.
ConstructorArgs ==
    { Spinn5Args,
      [triad_width |-> 8, triad_height |-> 8,
       roots |-> << <<0, 0>> >>, centre |-> <<36, 34>>],
      [triad_width |-> 4, triad_height |-> 4,
       roots |-> << <<0, 0>>, <<2, 2>> >>, centre |-> <<0, 0>>],
      [triad_width |-> 0, triad_height |-> 12,
       roots |-> << <<0, 0>> >>, centre |-> <<0, 0>>],
      [triad_width |-> 4, triad_height |-> -1,
       roots |-> << <<0, 0>> >>, centre |-> <<0, 0>>],
      [triad_width |-> 4, triad_height |-> 4,
       roots |-> <<>>, centre |-> <<0, 0>>],
      [triad_width |-> 0, triad_height |-> 0,
       roots |-> <<>>, centre |-> <<0, 0>>] }

Idle == [op |-> "idle"]

InitGeom ==
    /\ self = NoCall
    /\ params = <<>>
    /\ call = Idle
    /\ result = NoCall

\* SpiNNakerTriadGeometry(triad_width, triad_height, roots, centre)
New ==
    /\ call = Idle
    /\ \E p \in ConstructorArgs :
        LET r == __init__(p.triad_width, p.triad_height, p.roots, p.centre)
        IN  /\ result' = r
            /\ self' = IF r.kind = "return" THEN r ELSE NoCall
            /\ params' = p
    /\ call' = [op |-> "__init__"]
    /\ UNCHANGED <<linkVars, lazyVars>>

GetLocalChipCoordinate ==
    /\ call = Idle
    /\ self.kind = "return"
    /\ \E x, y \in Coords, o \in Origins :
        /\ call' = [op |-> "get_local_chip_coordinate",
                    x |-> x, y |-> y, root_x |-> o[1], root_y |-> o[2]]
        /\ result' = get_local_chip_coordinate(self.value, x, y, o[1], o[2])
    /\ UNCHANGED <<self, params, linkVars, lazyVars>>

GetEthernetChipCoordinates ==
    /\ call = Idle
    /\ self.kind = "return"
    /\ \E x, y \in Coords, width, height \in LatticeSides, o \in Origins :
        /\ call' = [op |-> "get_ethernet_chip_coordinates", x |-> x, y |-> y,
                    width |-> width, height |-> height,
                    root_x |-> o[1], root_y |-> o[2]]
        /\ result' = get_ethernet_chip_coordinates(
                        self.value, x, y, width, height, o[1], o[2])
    /\ UNCHANGED <<self, params, linkVars, lazyVars>>

GetPotentialEthernetChips ==
    /\ call = Idle
    /\ self.kind = "return"
    /\ \E width, height \in 1..MaxSize :
        /\ call' = [op |-> "get_potential_ethernet_chips",
                    width |-> width, height |-> height]
        /\ result' = get_potential_ethernet_chips(self.value, width, height)
    /\ UNCHANGED <<self, params, linkVars, lazyVars>>

\* the static method, on integer points
HexagonalMetricDistance ==
    /\ call = Idle
    /\ \E x, y, x0, y0 \in Deltas :
        /\ call' = [op |-> "_hexagonal_metric_distance",
                    x |-> x, y |-> y, x_centre |-> x0, y_centre |-> y0]
        /\ result' = Return(_hexagonal_metric_distance(x, y, x0, y0))
    /\ UNCHANGED <<self, params, linkVars, lazyVars>>

Done ==
    /\ call # Idle
    /\ call' = Idle
    /\ result' = NoCall
    /\ UNCHANGED <<self, params, linkVars, lazyVars>>

InitLazy ==
    /\ spinn5_triad_geometry = None
    /\ constructed = 0
    /\ pc = [t \in 1..NumThreads |-> "idle"]
    /\ local = [t \in 1..NumThreads |-> [obj |-> None, first |-> None]]
    /\ ret = [t \in 1..NumThreads |-> NoCall]

Init == InitLinks /\ InitGeom /\ InitLazy

Next ==
    \/ New
    \/ GetLocalChipCoordinate
    \/ GetEthernetChipCoordinates
    \/ GetPotentialEthernetChips
    \/ HexagonalMetricDistance
    \/ Done
Spec == Init /\ [][Next]_vars

SpecLinks == Init /\ [][NextLinks]_vars

(***************************************************************************)
(* SpecLazy: NumThreads threads call get_spinn5_geometry and get_lookups.  *)
(* Neither takes a lock, so the interpreter may switch threads between any *)
(* two statements: a step is one test, one construction, or one read or    *)
(* write of a class attribute.                                             *)
(***************************************************************************)
Threads == 1..NumThreads

\* what a caller finds behind a returned reference at the time of the return
View(id, h) ==
    IF id = None THEN [set |-> FALSE, items |-> <<>>]
    ELSE [set |-> TRUE, items |-> h[id]]

Goto(t, label) == pc' = [pc EXCEPT ![t] = label]

\* spinn_machine.py line 32, entering get_spinn5_geometry
GeomTest(t) ==
    /\ pc[t] = "idle"
    /\ Goto(t, IF spinn5_triad_geometry = None THEN "g_new" ELSE "g_ret")
    /\ UNCHANGED <<spinn5_triad_geometry, constructed, local, ret, linkVars, geomVars>>

\* lines 34-35: the constructor runs, the new object is on the thread's stack
GeomNew(t) ==
    /\ pc[t] = "g_new"
    /\ constructed' = constructed + 1
    /\ local' = [local EXCEPT ![t].obj = constructed + 1]
    /\ Goto(t, "g_store")
    /\ UNCHANGED <<spinn5_triad_geometry, ret, linkVars, geomVars>>

\* line 33: the attribute is assigned
GeomStore(t) ==
    /\ pc[t] = "g_store"
    /\ spinn5_triad_geometry' = local[t].obj
    /\ Goto(t, "g_ret")
    /\ UNCHANGED <<constructed, local, ret, linkVars, geomVars>>

\* line 36: the attribute is read again and returned
GeomReturn(t) ==
    /\ pc[t] = "g_ret"
    /\ ret' = [ret EXCEPT ![t] = [kind |-> "geometry", id |-> spinn5_triad_geometry]]
    /\ Goto(t, "idle")
    /\ UNCHANGED <<spinn5_triad_geometry, constructed, local, linkVars, geomVars>>

\* links.py line 54, entering get_lookups
LookupTest(t) ==
    /\ pc[t] = "idle"
    /\ Goto(t, IF LookupIsNone(LinksHelper) THEN "l_primary" ELSE "l_ret1")
    /\ UNCHANGED <<spinn5_triad_geometry, constructed, local, ret, linkVars, geomVars>>

\* lines 55-61
LookupPrimary(t) ==
    /\ pc[t] = "l_primary"
    /\ LET s == StorePrimary(LinksHelper, heap)
       IN  /\ LinksHelper' = s.c
           /\ heap' = s.h
           /\ local' = [local EXCEPT ![t].obj = Len(s.h)]
    /\ Goto(t, "l_inverse")
    /\ UNCHANGED <<spinn5_triad_geometry, constructed, ret, vector, link, out, hist, geomVars>>

\* lines 62-63
LookupInverse(t) ==
    /\ pc[t] = "l_inverse"
    /\ LET s == StoreInverse(LinksHelper, heap, local[t].obj)
       IN  LinksHelper' = s.c /\ heap' = s.h
    /\ Goto(t, "l_alias_sw")
    /\ UNCHANGED <<spinn5_triad_geometry, constructed, local, ret, vector, link, out, hist, geomVars>>

\* line 65
LookupAliasSW(t) ==
    /\ pc[t] = "l_alias_sw"
    /\ LET s == StoreAliasSW(LinksHelper, heap, local[t].obj)
       IN  LinksHelper' = s.c /\ heap' = s.h
    /\ Goto(t, "l_alias_ne")
    /\ UNCHANGED <<spinn5_triad_geometry, constructed, local, ret, vector, link, out, hist, geomVars>>

\* line 66
LookupAliasNE(t) ==
    /\ pc[t] = "l_alias_ne"
    /\ LET s == StoreAliasNE(LinksHelper, heap, local[t].obj)
       IN  LinksHelper' = s.c /\ heap' = s.h
    /\ Goto(t, "l_ret1")
    /\ UNCHANGED <<spinn5_triad_geometry, constructed, local, ret, vector, link, out, hist, geomVars>>

\* line 67: the first element of the returned tuple is read
LookupReturn1(t) ==
    /\ pc[t] = "l_ret1"
    /\ local' = [local EXCEPT ![t].first = LinksHelper.link_direction_lookup]
    /\ Goto(t, "l_ret2")
    /\ UNCHANGED <<spinn5_triad_geometry, constructed, ret, linkVars, geomVars>>

\* line 68: the second element is read and the tuple returned
LookupReturn2(t) ==
    /\ pc[t] = "l_ret2"
    /\ ret' = [ret EXCEPT ![t] =
                [kind |-> "lookups",
                 link_direction_lookup |-> View(local[t].first, heap),
                 direction_link_lookup |->
                    View(LinksHelper.direction_link_lookup, heap)]]
    /\ Goto(t, "idle")
    /\ UNCHANGED <<spinn5_triad_geometry, constructed, local, linkVars, geomVars>>

NextLazy ==
    \E t \in Threads :
        \/ GeomTest(t)
        \/ GeomNew(t)
        \/ GeomStore(t)
        \/ GeomReturn(t)
        \/ LookupTest(t)
        \/ LookupPrimary(t)
        \/ LookupInverse(t)
        \/ LookupAliasSW(t)
        \/ LookupAliasNE(t)
        \/ LookupReturn1(t)
        \/ LookupReturn2(t)
SpecLazy == Init /\ [][NextLazy]_vars

(***************************************************************************)
(* Properties of links.py, checked under SpecLinks                         *)
(***************************************************************************)
Sign(c) == IF c > 0 THEN 1 ELSE IF c < 0 THEN -1 ELSE 0
SignVector(v) == <<Sign(v[1]), Sign(v[2])>>
\* a component of magnitude at most 1 is kept, a larger one reverses its sign
Wrap(c) == IF c > 1 THEN -1 ELSE IF c < -1 THEN 1 ELSE c
WrapVector(v) == <<Wrap(v[1]), Wrap(v[2])>>
\* the vector -> direction table the class holds once a call has built it
CurrentLookup == heap[LinksHelper.link_direction_lookup]
FromVectorCalled == vector # <<>>
NonZero == vector # <<0, 0>>

\* C2 as stated: for every vector v with a nonzero component, from_vector(v)
\* is one of the 6 directions and equals from_vector(sign(v)).
C2_SignInvariance ==
    (FromVectorCalled /\ NonZero) =>
        /\ link.kind = "return"
        /\ link.value \in Links
        /\ link = from_vector(CurrentLookup, SignVector(vector))

\* C2 amended: for every vector v with a nonzero component, from_vector(v) is
\* one of the 6 directions and equals from_vector(w(v)), w keeping a
\* component of magnitude at most 1 and reversing the sign of a larger one.
C2_WrapInvariance ==
    (FromVectorCalled /\ NonZero) =>
        /\ link.kind = "return"
        /\ link.value \in Links
        /\ link = from_vector(CurrentLookup, WrapVector(vector))

\* from_vector((2, 0)) has returned west, the direction of (-1, 0)
C2_Witness == vector = <<2, 0>> /\ link = Return(west)

RoundTripDone == FromVectorCalled /\ NonZero /\ out.kind # "none"
RoundTripOf(u) ==
    /\ out.kind = "return"
    /\ IF u = <<1, -1>> THEN link.value = south_west /\ out.value = <<-1, -1>>
       ELSE IF u = <<-1, 1>> THEN link.value = north_east /\ out.value = <<1, 1>>
       ELSE out.value = u

\* C3 as stated: to_vector(from_vector(v)) is sign(v) unless sign(v) is one
\* of the two aliased diagonals, which come back as (-1,-1) and (+1,+1).
C3_SignRoundTrip == RoundTripDone => RoundTripOf(SignVector(vector))

\* C3 amended: to_vector(from_vector(v)) is w(v), the vector with large
\* components sign-reversed, unless w(v) is one of the two aliased
\* diagonals: (+1,-1) is south_west and comes back as (-1,-1), (-1,+1) is
\* north_east and comes back as (+1,+1).
C3_WrapRoundTrip == RoundTripDone => RoundTripOf(WrapVector(vector))

\* (-3, 2) wrapped to the aliased (+1,-1), went to south_west and came back (-1,-1)
C3_Witness ==
    vector = <<-3, 2>> /\ link = Return(south_west) /\ out = Return(<<-1, -1>>)

\* C4: from_vector raises exactly for the zero vector; every other vector,
\* whatever its magnitude, yields one of the 6 directions.
C4_FailsExactlyOnZero ==
    FromVectorCalled =>
        /\ link.kind \in {"return", "KeyError"}
        /\ (link.kind = "KeyError") <=> (vector = <<0, 0>>)
        /\ NonZero => (link.kind = "return" /\ link.value \in Links)

\* from_vector((0, 0)) has raised
C4_Witness == vector = <<0, 0>> /\ link.kind = "KeyError"

\* C5: opposite(d) is the member of ordinal (d + 3) mod 6, is not d, and
\* applied twice gives d back; the 6 members fall into 3 opposite pairs.
C5_Opposite ==
    /\ hist # <<>> =>
        /\ link.kind = "return"
        /\ link.value \in Links
        /\ link.value = (hist[Len(hist)] + 3) % 6
        /\ link.value # hist[Len(hist)]
    /\ Len(hist) >= 2 => link.value = hist[Len(hist) - 1]
    /\ Cardinality({{d, opposite(d)} : d \in Links}) = 3
    /\ \A d \in Links : \E pair \in {{e, opposite(e)} : e \in Links} : d \in pair

\* south.opposite.opposite has been taken and is south again
C5_Witness == Len(hist) = 2 /\ hist[1] = south /\ link = Return(south)

(***************************************************************************)
(* Property of the lazy initialisers, checked under SpecLazy               *)
(***************************************************************************)
AllVectorKeys ==
    {<<1, 0>>, <<-1, 0>>, <<0, 1>>, <<0, -1>>, <<1, 1>>, <<-1, -1>>, <<1, -1>>, <<-1, 1>>}

\* C6: whatever the interleaving, at most one geometry is constructed, every
\* get_spinn5_geometry call returns that one instance, and every get_lookups
\* return shows the full 8-entry and 6-entry tables.
C6_OneFullyBuiltValue ==
    /\ constructed <= 1
    /\ \A t, u \in Threads :
        (ret[t].kind = "geometry" /\ ret[u].kind = "geometry") => ret[t].id = ret[u].id
    /\ \A t \in Threads :
        ret[t].kind = "lookups" =>
            /\ ret[t].link_direction_lookup.set
            /\ DictKeys(ret[t].link_direction_lookup.items) = AllVectorKeys
            /\ ret[t].direction_link_lookup.set
            /\ DictKeys(ret[t].direction_link_lookup.items) = Links

(***************************************************************************)
(* Properties of spinn_machine.py, checked under Spec                      *)
(***************************************************************************)
Malformed(p) == p.triad_width <= 0 \/ p.triad_height <= 0 \/ p.roots = <<>>
\* the client holds an instance built from well-formed arguments
HoldsGeometry == self.kind = "return" /\ ~Malformed(params)
Called(op) == call.op = op

\* index i is the first one of the candidates whose key is minimal
IsFirstMinimal(keys, i) ==
    /\ \A j \in 1..Len(keys) : keys[i] <= keys[j]
    /\ \A j \in 1..(i - 1) : keys[j] > keys[i]

\* the hexagonal distances, in units of 1/CentreScale, from cell (x, y) to
\* each candidate shifted by the offset c
DistancesTo(x, y, cands, c) ==
    [i \in 1..Len(cands) |->
        LET dx == CentreScale * (x - cands[i][1]) - c[1]
            dy == CentreScale * (y - cands[i][2]) - c[2]
        IN  Max2(Max2(Abs(dx), Abs(dy)), Abs(dx - dy))]

\* a get_local_chip_coordinate(x, y) call for a cell of the tile, root (0, 0)
CellQueried ==
    /\ HoldsGeometry
    /\ Called("get_local_chip_coordinate")
    /\ call.root_x = 0 /\ call.root_y = 0
    /\ 0 <= call.x /\ call.x < params.triad_width
    /\ 0 <= call.y /\ call.y < params.triad_height

\* the answer is the offset to the first extended root nearest to the cell,
\* distances being measured to the root shifted by c
OffsetToNearest(c) ==
    LET ext == extended_ethernet_chips(
                    params.triad_width, params.triad_height, params.roots)
        keys == DistancesTo(call.x, call.y, ext, c)
    IN  /\ result.kind = "return"
        /\ \E i \in 1..Len(ext) :
            /\ IsFirstMinimal(keys, i)
            /\ result.value = <<call.x - ext[i][1], call.y - ext[i][2]>>

\* C1 as stated: for every cell of the tile, get_local_chip_coordinate is the
\* offset to the extended root at the least hexagonal distance from the
\* cell, the first such root in enumeration order on a tie.
C1_NearestRoot == CellQueried => OffsetToNearest(<<0, 0>>)

\* C1 amended: the offset is to the extended root whose nominal board centre
\* (root + centre) is at the least hexagonal distance from the cell, the
\* first such root in enumeration order on a tie.
C1_NearestBoardCentre == CellQueried => OffsetToNearest(params.centre)

\* cell (7, 7) of the standard triad belongs to the board rooted at (0, 0),
\* though root (4, 8) is nearer
C1_Witness ==
    /\ CellQueried
    /\ params = Spinn5Args
    /\ call.x = 7 /\ call.y = 7
    /\ result = Return(<<7, 7>>)

\* C7: for any x, y, root_x, root_y and any width, height >= 1 the Ethernet
\* coordinate lies in [0, width) x [0, height) and is congruent to
\* (x - dx, y - dy), (dx, dy) being get_local_chip_coordinate's answer.
C7_EthernetInLattice ==
    (HoldsGeometry /\ Called("get_ethernet_chip_coordinates")) =>
        LET d == get_local_chip_coordinate(
                    self.value, call.x, call.y, call.root_x, call.root_y)
        IN  /\ d.kind = "return"
            /\ result.kind = "return"
            /\ 0 <= result.value[1] /\ result.value[1] < call.width
            /\ 0 <= result.value[2] /\ result.value[2] < call.height
            /\ (result.value[1] - (call.x - d.value[1])) % call.width = 0
            /\ (result.value[2] - (call.y - d.value[2])) % call.height = 0

\* chip (-1, -5), below the origin, on a 20 x 8 lattice relative to (-3, 17)
C7_Witness ==
    /\ Called("get_ethernet_chip_coordinates")
    /\ params = Spinn5Args
    /\ call.x = -1 /\ call.y = -5 /\ call.width = 20 /\ call.height = 8
    /\ call.root_x = -3 /\ call.root_y = 17
    /\ result = Return(<<17, 1>>)

SeqElems(q) == {q[i] : i \in 1..Len(q)}
NoDuplicates(q) == \A i, j \in 1..Len(q) : q[i] = q[j] => i = j
RootSet == SeqElems(params.roots)

\* C8: with bx = width if the period divides it, else width - 7 (by alike):
\* the answer is [(0,0)] if bx <= 0 or by <= 0, else each root's tiling
\* (rx + i*tw, ry + j*th), i, j >= 0, below (bx, by), listed once.  (8, 8) on
\* the standard triad gives [(0,0)]; multiples of the period give the
\* coordinates of the lattice congruent to a root.
C8_PotentialEthernetChips ==
    (HoldsGeometry /\ Called("get_potential_ethernet_chips")) =>
        LET tw == params.triad_width
            th == params.triad_height
            bx == IF \E k \in 1..call.width : call.width = k * tw
                  THEN call.width ELSE call.width - 7
            by == IF \E k \in 1..call.height : call.height = k * th
                  THEN call.height ELSE call.height - 7
            tiling == {<<r[1] + i * tw, r[2] + j * th>> :
                            r \in RootSet, i \in 0..call.width, j \in 0..call.height}
        IN  /\ result.kind = "return"
            /\ IF bx <= 0 \/ by <= 0
               THEN result.value = << <<0, 0>> >>
               ELSE /\ NoDuplicates(result.value)
                    /\ SeqElems(result.value) = {c \in tiling : c[1] < bx /\ c[2] < by}
            /\ (params = Spinn5Args /\ call.width = 8 /\ call.height = 8)
                    => result.value = << <<0, 0>> >>
            /\ (bx = call.width /\ by = call.height) =>
                    SeqElems(result.value) =
                        {c \in (0..(call.width - 1)) \X (0..(call.height - 1)) :
                            \E r \in RootSet : \E i \in 0..call.width, j \in 0..call.height :
                                c = <<r[1] + i * tw, r[2] + j * th>>}

\* a 20 x 16 lattice of standard triads: trimmed to 13 x 9
C8_Witness ==
    /\ Called("get_potential_ethernet_chips")
    /\ params = Spinn5Args
    /\ call.width = 20 /\ call.height = 16
    /\ result = Return(<< <<0, 0>>, <<12, 0>>, <<4, 8>>, <<8, 4>> >>)

\* C9: a constructor call with a non-positive dimension or no root raises,
\* and no instance with a missing or short offset table is ever held.
C9_MalformedRejected ==
    /\ (Called("__init__") /\ Malformed(params)) => result.kind # "return"
    /\ self.kind = "return" =>
        /\ self.value.triad_width > 0 /\ self.value.triad_height > 0
        /\ Len(self.value.ethernet_offset) = self.value.triad_height
        /\ \A r \in 1..Len(self.value.ethernet_offset) :
                Len(self.value.ethernet_offset[r]) = self.value.triad_width

\* the unit steps of the lattice: the primary vector of each direction
\* (links.py lines 55-63)
UnitSteps == {to_vector(Invert(PrimaryLookup), d).value : d \in Links}

\* the displacements reachable in at most k unit steps
RECURSIVE Ball(_)
Ball(k) ==
    IF k = 0 THEN {<<0, 0>>}
    ELSE LET prev == Ball(k - 1)
         IN  prev \cup {<<v[1] + u[1], v[2] + u[2]>> : v \in prev, u \in UnitSteps}
MaxSteps == 4 * MaxDelta
Balls == [k \in 0..MaxSteps |-> Ball(k)]
\* the least number of unit steps making up the displacement v
GraphDistance(v) ==
    CHOOSE k \in 0..MaxSteps : v \in Balls[k] /\ (k = 0 \/ v \notin Balls[k - 1])

\* C10: on integer points the metric is the graph distance of the lattice
\* whose steps are the 6 primary vectors: 0 exactly for equal points, the
\* same from either end, and 1 for each unit step.
C10_MetricIsGraphDistance ==
    Called("_hexagonal_metric_distance") =>
        LET d == <<call.x - call.x_centre, call.y - call.y_centre>>
        IN  /\ result.kind = "return"
            /\ \E k \in 0..MaxSteps : d \in Balls[k]
            /\ result.value = GraphDistance(d)
            /\ (result.value = 0) <=> (d = <<0, 0>>)
            /\ result.value = _hexagonal_metric_distance(
                                call.x_centre, call.y_centre, call.x, call.y)
            /\ d \in UnitSteps => result.value = 1

\* from (2, -2) to (-2, 2): 8 steps, the diagonal (+1,-1) being no link
C10_Witness ==
    /\ Called("_hexagonal_metric_distance")
    /\ call.x = 2 /\ call.y = -2 /\ call.x_centre = -2 /\ call.y_centre = 2
    /\ result = Return(8)

====
